---- MODULE Spec2Model ----
(***************************************************************************)
(* Model of pdf_title_matcher.py: the fuzzy matcher (match_titles_fuzzy),  *)
(* the catalog update (update_excel_file), the driver (main) and the title *)
(* extractor (extract_title_from_text).                                    *)
(*                                                                         *)
(* The three fuzzywuzzy scorers are library functions of (query, choice).  *)
(* They are modelled as an arbitrary table of integer scores, drawn anew   *)
(* for every catalog record: a record is seen by the matcher only through  *)
(* pd.isna and through the scorers, so two records with equal titles are   *)
(* the case of two records that draw the same table.                       *)
(***************************************************************************)
EXTENDS Integers, Sequences, FiniteSets, TLC

\* Bounds of the model.
MaxRecords == 2
MaxDocs == 2

\* threshold=60, the default of match_titles_fuzzy.
DefaultThreshold == 60

NaN == "NaN"
None == "None"

\* The scorers in the order the code tries them.
Strategies == <<"token_sort", "partial", "token_set">>
StrategySet == {Strategies[k] : k \in 1..Len(Strategies)}

\* Extracted titles a document may carry, scores a scorer may return and
\* thresholds a caller may pass.
PdfTitleSet == {"p1", "p2"}
ScoreVals == {50, 60}
Thresholds == {50, DefaultThreshold}

VARIABLES
    pc,                 \* position in the run
    caller,             \* "main" or "direct" (match_titles_fuzzy called on its own)
    pdf_titles,         \* the title index: sequence of [filename, title], in dict order
    excel_titles,       \* excel_articles['Article'].tolist()
    threshold,
    idx,                \* loop index of match_titles_fuzzy, 0-based
    scores,             \* scorer values of the record processed last (NoScores if skipped)
    best_scores,        \* per record processed: <<confidence of best_match>>, or <<>> if none
    matches,            \* dict idx -> match
    unmatched_articles, \* list of (idx, title)
    unmatched_pdfs,     \* list of filenames
    rerun,              \* a second call on the same inputs with another threshold
    df,                 \* the data frame of update_excel_file
    output_file,        \* <<the saved workbook>>, <<>> until it is written
    text,               \* extract_title_from_text: the argument
    lines,              \* the stripped non-empty lines
    title_start_idx,
    title_lines,
    title,              \* the value returned, None for absent
    pdf_files,          \* process_all_pdfs: the files of the folder, in the order of the glob
    file_num            \* the number of files processed

\* The variables of the matching run and those of the title extractor.
mvars == <<caller, pdf_titles, excel_titles, threshold, idx, scores, best_scores, matches,
           unmatched_articles, unmatched_pdfs, rerun, df, output_file>>
xvars == <<text, lines, title_start_idx, title_lines, title>>
fvars == <<pdf_files, file_num>>
vars == <<pc, mvars, xvars, fvars>>

----------------------------------------------------------------------------
\* Inputs

FileName(i) == "doc" \o ToString(i) \o ".pdf"
ExcelTitle(i) == "article " \o ToString(i)

\* Title indexes: up to MaxDocs documents with distinct filenames; two
\* documents may carry the same extracted title.
Indexes ==
    UNION {[1..n -> PdfTitleSet] : n \in 0..MaxDocs}

MakeIndex(ts) == [i \in 1..Len(ts) |-> [filename |-> FileName(i), title |-> ts[i]]]

\* Catalogs: up to MaxRecords records, each with a title of its own or NaN.
Catalogs ==
    UNION {{[i \in 1..n |-> IF i \in missing THEN NaN ELSE ExcelTitle(i)] :
                missing \in SUBSET (1..n)} : n \in 0..MaxRecords}

EmptyFcn == [x \in {} |-> 0]
NoScores == EmptyFcn
NoRerun == [active |-> FALSE]

\* All tables of scorer values for one query against the titles of the index.
ScoreRows(titles) == [StrategySet -> [titles -> ScoreVals]]

----------------------------------------------------------------------------
\* match_titles_fuzzy

pdf_title_list == [i \in 1..Len(pdf_titles) |-> pdf_titles[i].title]
pdf_filename_list == [i \in 1..Len(pdf_titles) |-> pdf_titles[i].filename]

\* process.extractOne(query, choices, scorer): None for no choices, else the
\* choice with the highest score, the first of them in list order.
ExtractOneLast(sc, choices) ==
    IF Len(choices) = 0 THEN None
    ELSE <<choices[Len(choices)], sc[choices[Len(choices)]]>>

ExtractOne(sc, choices) ==
    IF Len(choices) = 0 THEN None
    ELSE LET i == CHOOSE i \in 1..Len(choices) :
                    /\ \A j \in 1..Len(choices) : sc[choices[j]] <= sc[choices[i]]
                    /\ \A j \in 1..(i-1) : sc[choices[j]] < sc[choices[i]]
         IN <<choices[i], sc[choices[i]]>>

RECURSIVE MatchesFoundFrom(_, _, _)
MatchesFoundFrom(k, row, choices) ==
    IF k > Len(Strategies) THEN <<>>
    ELSE LET m == ExtractOne(row[Strategies[k]], choices)
             rest == MatchesFoundFrom(k + 1, row, choices)
         IN IF m # None THEN <<<<Strategies[k], m[1], m[2]>>>> \o rest ELSE rest

\* matches_found after the three extractOne calls.
MatchesFound(row, choices) == MatchesFoundFrom(1, row, choices)

\* max(matches_found, key=lambda x: x[2]): the first maximal element.
BestMatchLast(found) ==
    LET i == CHOOSE i \in 1..Len(found) :
                /\ \A j \in 1..Len(found) : found[j][3] <= found[i][3]
                /\ \A j \in (i+1)..Len(found) : found[j][3] < found[i][3]
    IN found[i]

BestMatch(found) ==
    LET i == CHOOSE i \in 1..Len(found) :
                /\ \A j \in 1..Len(found) : found[j][3] <= found[i][3]
                /\ \A j \in 1..(i-1) : found[j][3] < found[i][3]
    IN found[i]

\* pdf_title_list.index(matched_pdf_title)
ListIndexLast(list, x) == CHOOSE i \in 1..Len(list) :
    list[i] = x /\ \A j \in (i + 1)..Len(list) : list[j] # x

ListIndex(list, x) == CHOOSE i \in 1..Len(list) :
                          list[i] = x /\ \A j \in 1..(i-1) : list[j] # x

\* confidence >= threshold
AcceptsStrict(confidence, thr) == confidence > thr

Accepts(confidence, thr) == confidence >= thr

\* One iteration of the loop over excel_titles, on the dict m and the list ua.
ProcessArticle(m, ua, i, excel_title, row, thr) ==
    IF excel_title = NaN THEN [matches |-> m, unmatched_articles |-> ua]
    ELSE LET found == MatchesFound(row, pdf_title_list) IN
         IF Len(found) > 0
         THEN LET best == BestMatch(found)
                  pdf_idx == ListIndex(pdf_title_list, best[2])
              IN IF Accepts(best[3], thr)
                 THEN [matches |-> (i :> [filename |-> pdf_filename_list[pdf_idx],
                                          pdf_title |-> best[2],
                                          confidence |-> best[3],
                                          method |-> best[1]]) @@ m,
                       unmatched_articles |-> ua]
                 ELSE [matches |-> m, unmatched_articles |-> Append(ua, <<i, excel_title>>)]
         ELSE [matches |-> m, unmatched_articles |-> Append(ua, <<i, excel_title>>)]

\* The confidence of best_match in one iteration, <<>> when the record is
\* skipped or matches_found is empty.
BestConfidence(excel_title, row) ==
    IF excel_title = NaN THEN <<>>
    ELSE LET found == MatchesFound(row, pdf_title_list) IN
         IF Len(found) > 0 THEN <<BestMatch(found)[3]>> ELSE <<>>

\* matched_filenames
MatchedFilenames(m) == {m[i].filename : i \in DOMAIN m}

RECURSIVE SelectNotIn(_, _)
SelectNotIn(list, S) ==
    IF Len(list) = 0 THEN <<>>
    ELSE (IF Head(list) \notin S THEN <<Head(list)>> ELSE <<>>) \o SelectNotIn(Tail(list), S)

\* [filename for filename in pdf_titles.keys() if filename not in matched_filenames]
UnmatchedPdfsAll(m) == pdf_filename_list

UnmatchedPdfs(m) == SelectNotIn(pdf_filename_list, MatchedFilenames(m))

----------------------------------------------------------------------------
\* update_excel_file

InputColumns == {"Article", "Author"}
AddedColumns == {"File Name", "Match Confidence"}

\* pd.read_excel(excel_file): the catalog whose Article column is titles.
ReadExcel(titles) ==
    [c \in InputColumns |->
        IF c = "Article" THEN titles
        ELSE [i \in 1..Len(titles) |-> c \o " " \o ToString(i)]]

\* f"{match_info['confidence']}%"
FormatConfidenceBare(confidence) == ToString(confidence)

FormatConfidence(confidence) == ToString(confidence) \o "%"

\* The frame after the two columns are added and the matches filled in.
\* Rows are labelled 0..n-1 (RangeIndex), row i of the frame is label i-1.
UpdatedFrame(frame, m) ==
    LET n == Len(frame["Article"]) IN
    [c \in (DOMAIN frame) \cup AddedColumns |->
        IF c = "File Name"
        THEN [i \in 1..n |-> IF (i - 1) \in DOMAIN m THEN m[i - 1].filename ELSE ""]
        ELSE IF c = "Match Confidence"
        THEN [i \in 1..n |-> IF (i - 1) \in DOMAIN m
                             THEN FormatConfidence(m[i - 1].confidence) ELSE ""]
        ELSE frame[c]]

----------------------------------------------------------------------------
\* The run

Init ==
    /\ pc = "start"
    /\ caller = None
    /\ pdf_titles = <<>>
    /\ excel_titles = <<>>
    /\ threshold = DefaultThreshold
    /\ idx = 0
    /\ scores = NoScores
    /\ best_scores = <<>>
    /\ matches = EmptyFcn
    /\ unmatched_articles = <<>>
    /\ unmatched_pdfs = <<>>
    /\ rerun = NoRerun
    /\ df = EmptyFcn
    /\ output_file = <<>>
    /\ text = None
    /\ lines = <<>>
    /\ title_start_idx = 0
    /\ title_lines = <<>>
    /\ title = None
    /\ pdf_files = <<>>
    /\ file_num = 0

\* match_titles_fuzzy(pdf_titles, excel_articles, threshold) called on its own.
CallMatch ==
    /\ pc = "start"
    /\ \E ts \in Indexes, cat \in Catalogs, thr \in Thresholds :
        /\ pdf_titles' = MakeIndex(ts)
        /\ excel_titles' = cat
        /\ threshold' = thr
    /\ caller' = "direct"
    /\ pc' = "match"
    /\ UNCHANGED <<idx, scores, best_scores, matches, unmatched_articles, unmatched_pdfs, rerun,
                   df, output_file>>
    /\ UNCHANGED xvars
    /\ UNCHANGED fvars

\* main: PDF_FOLDER or EXCEL_FILE does not exist.
MainMissingInput ==
    /\ pc = "start"
    /\ caller' = "main"
    /\ pc' = "exit"
    /\ UNCHANGED <<pdf_titles, excel_titles, threshold, idx, scores, best_scores, matches,
                   unmatched_articles, unmatched_pdfs, rerun, df, output_file>>
    /\ UNCHANGED xvars
    /\ UNCHANGED fvars

\* main, step 1: process_all_pdfs, then the exit on an empty index.
MainExtractTitles ==
    /\ pc = "start"
    /\ caller' = "main"
    /\ \E ts \in Indexes :
        /\ pdf_titles' = MakeIndex(ts)
        /\ pc' = IF Len(ts) = 0 THEN "exit" ELSE "load"
    /\ UNCHANGED <<excel_titles, threshold, idx, scores, best_scores, matches,
                   unmatched_articles, unmatched_pdfs, rerun, df, output_file>>
    /\ UNCHANGED xvars
    /\ UNCHANGED fvars

\* main, steps 2 and 3: read the catalog, call match_titles_fuzzy(pdf_titles, df).
MainLoadExcel ==
    /\ pc = "load"
    /\ \E cat \in Catalogs : excel_titles' = cat
    /\ threshold' = DefaultThreshold
    /\ pc' = "match"
    /\ UNCHANGED <<caller, pdf_titles, idx, scores, best_scores, matches, unmatched_articles,
                   unmatched_pdfs, rerun, df, output_file>>
    /\ UNCHANGED xvars
    /\ UNCHANGED fvars

\* One iteration of "for idx, excel_title in enumerate(excel_titles)".
MatchStep ==
    /\ pc = "match"
    /\ idx < Len(excel_titles)
    /\ LET excel_title == excel_titles[idx + 1] IN
       \E row \in ScoreRows({pdf_title_list[i] : i \in 1..Len(pdf_titles)}) :
        LET r == ProcessArticle(matches, unmatched_articles, idx, excel_title,
                                row, threshold)
        IN /\ matches' = r.matches
           /\ unmatched_articles' = r.unmatched_articles
           /\ scores' = IF excel_title = NaN THEN NoScores ELSE row
           /\ best_scores' = Append(best_scores, BestConfidence(excel_title, row))
           /\ rerun' = IF ~rerun.active THEN rerun
                       ELSE LET r2 == ProcessArticle(rerun.matches,
                                          rerun.unmatched_articles, idx,
                                          excel_title, row, rerun.threshold)
                            IN [rerun EXCEPT !.matches = r2.matches,
                                   !.unmatched_articles = r2.unmatched_articles]
    /\ idx' = idx + 1
    /\ UNCHANGED <<pc, caller, pdf_titles, excel_titles, threshold, unmatched_pdfs,
                   df, output_file>>
    /\ UNCHANGED xvars
    /\ UNCHANGED fvars

\* After the loop: the unmatched PDFs, and the return.
MatchReturn ==
    /\ pc = "match"
    /\ idx = Len(excel_titles)
    /\ unmatched_pdfs' = UnmatchedPdfs(matches)
    /\ rerun' = IF ~rerun.active THEN rerun
                ELSE [rerun EXCEPT !.unmatched_pdfs = UnmatchedPdfs(rerun.matches)]
    /\ pc' = IF caller = "main" THEN "update" ELSE "returned"
    /\ UNCHANGED <<caller, pdf_titles, excel_titles, threshold, idx, scores, best_scores, matches,
                   unmatched_articles, df, output_file>>
    /\ UNCHANGED xvars
    /\ UNCHANGED fvars

\* main, step 4: update_excel_file(EXCEL_FILE, matches).
UpdateExcelFile ==
    /\ pc = "update"
    /\ df' = UpdatedFrame(ReadExcel(excel_titles), matches)
    /\ output_file' = <<df'>>
    /\ pc' = "summary"
    /\ UNCHANGED <<caller, pdf_titles, excel_titles, threshold, idx, scores, best_scores, matches,
                   unmatched_articles, unmatched_pdfs, rerun>>
    /\ UNCHANGED xvars
    /\ UNCHANGED fvars

\* main, step 5: the summary, with len(matches)/len(df).
Summary ==
    /\ pc = "summary"
    /\ pc' = IF Len(excel_titles) = 0 THEN "ZeroDivisionError" ELSE "done"
    /\ UNCHANGED <<caller, pdf_titles, excel_titles, threshold, idx, scores, best_scores, matches,
                   unmatched_articles, unmatched_pdfs, rerun, df, output_file>>
    /\ UNCHANGED xvars
    /\ UNCHANGED fvars

\* match_titles_fuzzy called twice on the same index and catalog, with the
\* thresholds t1 < t2. The scorers are pure functions of the two titles, so the
\* two calls see the same scorer values for every record: the second call is
\* carried along record by record in rerun.
CallMatchTwice ==
    /\ pc = "start"
    /\ \E ts \in Indexes, cat \in Catalogs, t1 \in Thresholds, t2 \in Thresholds :
        /\ t1 < t2
        /\ pdf_titles' = MakeIndex(ts)
        /\ excel_titles' = cat
        /\ threshold' = t1
        /\ rerun' = [active |-> TRUE, threshold |-> t2, matches |-> EmptyFcn,
                     unmatched_articles |-> <<>>, unmatched_pdfs |-> <<>>]
    /\ caller' = "direct"
    /\ pc' = "match"
    /\ UNCHANGED <<idx, scores, best_scores, matches, unmatched_articles, unmatched_pdfs,
                   df, output_file>>
    /\ UNCHANGED xvars
    /\ UNCHANGED fvars

\* The program: main.
Next ==
    \/ MainMissingInput
    \/ MainExtractTitles
    \/ MainLoadExcel
    \/ MatchStep
    \/ MatchReturn
    \/ UpdateExcelFile
    \/ Summary

Spec == Init /\ [][Next]_vars

\* match_titles_fuzzy on any index, catalog and threshold.
NextMatch ==
    \/ CallMatch
    \/ MatchStep
    \/ MatchReturn

SpecMatch == Init /\ [][NextMatch]_vars

\* Two calls of match_titles_fuzzy that differ in the threshold only.
NextPair ==
    \/ CallMatchTwice
    \/ MatchStep
    \/ MatchReturn

SpecPair == Init /\ [][NextPair]_vars

----------------------------------------------------------------------------
\* Strings: Python's str and re operations used by the title extractor.

UpperChars == "ABCDEFGHIJKLMNOPQRSTUVWXYZ"
LowerChars == "abcdefghijklmnopqrstuvwxyz"

Char(s, i) == SubSeq(s, i, i)
UpperSet == {Char(UpperChars, k) : k \in 1..Len(UpperChars)}
LowerSet == {Char(LowerChars, k) : k \in 1..Len(LowerChars)}
IsSpace(c) == c \in {" ", "\t", "\r"}
IsDigit(c) == c \in {"0", "1", "2", "3", "4", "5", "6", "7", "8", "9"}

\* c.lower()
LowerChar(c) ==
    IF c \in UpperSet
    THEN Char(LowerChars, CHOOSE k \in 1..Len(UpperChars) : Char(UpperChars, k) = c)
    ELSE c

\* s.lower(), by halves
RECURSIVE Lower(_)
Lower(s) ==
    IF s = "" THEN ""
    ELSE IF Len(s) = 1 THEN LowerChar(s)
    ELSE LET h == Len(s) \div 2 IN
         Lower(SubSeq(s, 1, h)) \o Lower(SubSeq(s, h + 1, Len(s)))

\* sub in s
Contains(s, sub) ==
    \E i \in 1..(Len(s) - Len(sub) + 1) : SubSeq(s, i, i + Len(sub) - 1) = sub

ContainsAny(s, subs) == \E k \in 1..Len(subs) : Contains(s, subs[k])

\* s.isupper(): some cased character, and no lowercase one.
IsUpper(s) ==
    /\ \E i \in 1..Len(s) : Char(s, i) \in UpperSet
    /\ \A i \in 1..Len(s) : Char(s, i) \notin LowerSet

MinIn(S) == CHOOSE x \in S : \A y \in S : x <= y
MaxIn(S) == CHOOSE x \in S : \A y \in S : y <= x

\* s.lstrip(), s.rstrip()
LStrip(s) ==
    LET keep == {i \in 1..Len(s) : ~IsSpace(Char(s, i))} IN
    IF keep = {} THEN "" ELSE SubSeq(s, MinIn(keep), Len(s))

RStrip(s) ==
    LET keep == {i \in 1..Len(s) : ~IsSpace(Char(s, i))} IN
    IF keep = {} THEN "" ELSE SubSeq(s, 1, MaxIn(keep))

\* s.strip()
Strip(s) == RStrip(LStrip(s))

\* s without its leading, its trailing run of digits
LStripDigits(s) ==
    LET keep == {i \in 1..Len(s) : ~IsDigit(Char(s, i))} IN
    IF keep = {} THEN "" ELSE SubSeq(s, MinIn(keep), Len(s))

RStripDigits(s) ==
    LET keep == {i \in 1..Len(s) : ~IsDigit(Char(s, i))} IN
    IF keep = {} THEN "" ELSE SubSeq(s, 1, MaxIn(keep))

\* re.sub(r'^\d+\s*', '', line)
SubLeadingNumber(line) ==
    IF line # "" /\ IsDigit(Head(line)) THEN LStrip(LStripDigits(line)) ELSE line

\* re.sub(r'\s*\d+$', '', line)
SubTrailingNumber(line) ==
    IF line # "" /\ IsDigit(Char(line, Len(line)))
    THEN RStrip(RStripDigits(line)) ELSE line

\* re.sub(r'\s+', ' ', s)
RECURSIVE CollapseSpaces(_)
CollapseSpaces(s) ==
    IF s = "" THEN ""
    ELSE IF Len(s) = 1 THEN (IF IsSpace(s) THEN " " ELSE s)
    ELSE LET h == Len(s) \div 2
             l == CollapseSpaces(SubSeq(s, 1, h))
             r == CollapseSpaces(SubSeq(s, h + 1, Len(s)))
         IN IF Char(l, Len(l)) = " " /\ Head(r) = " " THEN l \o Tail(r) ELSE l \o r

\* re.sub(r'^(the|an|a)\s+', '', title, flags=re.IGNORECASE)
StartsWithWord(s, w) ==
    /\ Len(s) > Len(w)
    /\ Lower(SubSeq(s, 1, Len(w))) = w
    /\ IsSpace(Char(s, Len(w) + 1))

SubLeadingArticle(s) ==
    IF StartsWithWord(s, "the") THEN LStrip(SubSeq(s, 4, Len(s)))
    ELSE IF StartsWithWord(s, "an") THEN LStrip(SubSeq(s, 3, Len(s)))
    ELSE IF StartsWithWord(s, "a") THEN LStrip(SubSeq(s, 2, Len(s)))
    ELSE s

\* re.sub(r'\s*[,;]\s*$', '', title)
SubTrailingSeparator(s) ==
    LET t == RStrip(s) IN
    IF t # "" /\ Char(t, Len(t)) \in {",", ";"}
    THEN RStrip(SubSeq(t, 1, Len(t) - 1)) ELSE s

\* ' '.join(parts)
RECURSIVE JoinSpace(_)
JoinSpace(parts) ==
    IF Len(parts) = 0 THEN ""
    ELSE IF Len(parts) = 1 THEN parts[1]
    ELSE parts[1] \o " " \o JoinSpace(Tail(parts))

\* text.split('\n')
Split(s) ==
    LET breaks == {i \in 1..Len(s) : Char(s, i) = "\n"}
        \* the position of the k-th newline; 0 and Len(s) + 1 bracket the text
        Break(k) == IF k = 0 THEN 0
                    ELSE IF k > Cardinality(breaks) THEN Len(s) + 1
                    ELSE CHOOSE i \in breaks :
                            Cardinality({j \in breaks : j <= i}) = k
    IN [k \in 1..(Cardinality(breaks) + 1) |->
            SubSeq(s, Break(k - 1) + 1, Break(k) - 1)]

----------------------------------------------------------------------------
\* clean_title_line, clean_full_title, extract_title_from_text

HeaderWords == <<"www.ausmt.org", "copyright", "journal of automation", "vol.", "no.">>
SectionWords == <<"editorial", "original article", "trend", "review", "research">>
StopWords == <<"abstract", "introduction", "keywords", "received:", "doi:">>
NonTitleWords == <<"www.", "copyright", "journal", "vol.", "no.", "page">>

clean_title_line(line) ==
    IF line = "" THEN ""
    ELSE LET l == Strip(CollapseSpaces(SubTrailingNumber(SubLeadingNumber(line)))) IN
         IF ContainsAny(Lower(l), NonTitleWords) THEN "" ELSE l

clean_full_title(t) ==
    IF t = "" THEN ""
    ELSE Strip(SubTrailingSeparator(SubLeadingArticle(Strip(CollapseSpaces(t)))))

\* [line.strip() for line in text.split('\n') if line.strip()]
RECURSIVE StrippedNonEmpty(_)
StrippedNonEmpty(raw) ==
    IF Len(raw) = 0 THEN <<>>
    ELSE (IF Strip(Head(raw)) # "" THEN <<Strip(Head(raw))>> ELSE <<>>)
            \o StrippedNonEmpty(Tail(raw))

\* The loop over lines[:15] that sets title_start_idx; i is 0-based.
RECURSIVE FindStartLengthFirst(_, _)
FindStartLengthFirst(ls, i) ==
    IF i >= Len(ls) \/ i >= 15 THEN 0
    ELSE LET line == ls[i + 1]
             line_lower == Lower(line)
         IN IF ContainsAny(line_lower, HeaderWords) THEN FindStartLengthFirst(ls, i + 1)
            ELSE IF Len(line) > 20 /\ i < 10 THEN i
            ELSE IF ContainsAny(line_lower, SectionWords) THEN i + 1
            ELSE FindStartLengthFirst(ls, i + 1)

RECURSIVE FindStart(_, _)
FindStart(ls, i) ==
    IF i >= Len(ls) \/ i >= 15 THEN 0
    ELSE LET line == ls[i + 1]
             line_lower == Lower(line)
         IN IF ContainsAny(line_lower, HeaderWords) THEN FindStart(ls, i + 1)
            ELSE IF ContainsAny(line_lower, SectionWords) THEN i + 1
            ELSE IF Len(line) > 20 /\ i < 10 THEN i
            ELSE FindStart(ls, i + 1)

\* The line looks like author info.
LooksLikeAuthor(cleaned_line) ==
    /\ Len(cleaned_line) < 50
    /\ \/ IsUpper(cleaned_line)
       \/ Contains(cleaned_line, "@")
       \/ Contains(Lower(cleaned_line), "university")

EndsSentence(cleaned_line) ==
    cleaned_line # "" /\ Char(cleaned_line, Len(cleaned_line)) \in {".", "?", "!"}

\* The loop over range(title_start_idx, min(title_start_idx + 5, len(lines))),
\* from i (0-based) with the title_lines collected so far.
RECURSIVE CollectAuthorIncluded(_, _, _, _)
CollectAuthorIncluded(ls, i, stop, acc) ==
    IF i >= stop THEN acc
    ELSE LET cleaned_line == clean_title_line(ls[i + 1]) IN
         IF cleaned_line = "" THEN CollectAuthorIncluded(ls, i + 1, stop, acc)
         ELSE IF ContainsAny(Lower(cleaned_line), StopWords) THEN acc
         ELSE IF LooksLikeAuthor(cleaned_line) THEN Append(acc, cleaned_line)
         ELSE IF EndsSentence(cleaned_line) THEN Append(acc, cleaned_line)
         ELSE CollectAuthorIncluded(ls, i + 1, stop, Append(acc, cleaned_line))

RECURSIVE Collect(_, _, _, _)
Collect(ls, i, stop, acc) ==
    IF i >= stop THEN acc
    ELSE LET cleaned_line == clean_title_line(ls[i + 1]) IN
         IF cleaned_line = "" THEN Collect(ls, i + 1, stop, acc)
         ELSE IF ContainsAny(Lower(cleaned_line), StopWords) THEN acc
         ELSE IF LooksLikeAuthor(cleaned_line) THEN acc
         ELSE IF EndsSentence(cleaned_line) THEN Append(acc, cleaned_line)
         ELSE Collect(ls, i + 1, stop, Append(acc, cleaned_line))

Min2(a, b) == IF a < b THEN a ELSE b

CollectTitleLines(ls, start) == Collect(ls, start, Min2(start + 5, Len(ls)), <<>>)

\* len(full_title) > 10 and len(full_title) < 300
AcceptsTitleOver15(full_title) == Len(full_title) > 15 /\ Len(full_title) < 300

AcceptsTitle(full_title) == Len(full_title) > 10 /\ Len(full_title) < 300

\* meaningful_lines: the cleaned lines of lines[:20] of length 16..199.
RECURSIVE MeaningfulLinesOver5(_, _)
MeaningfulLinesOver5(ls, i) ==
    IF i >= Len(ls) \/ i >= 20 THEN <<>>
    ELSE LET cleaned == clean_title_line(ls[i + 1]) IN
         (IF Len(cleaned) > 5 /\ Len(cleaned) < 200 THEN <<cleaned>> ELSE <<>>)
            \o MeaningfulLinesOver5(ls, i + 1)

RECURSIVE MeaningfulLines(_, _)
MeaningfulLines(ls, i) ==
    IF i >= Len(ls) \/ i >= 20 THEN <<>>
    ELSE LET cleaned == clean_title_line(ls[i + 1]) IN
         (IF Len(cleaned) > 15 /\ Len(cleaned) < 200 THEN <<cleaned>> ELSE <<>>)
            \o MeaningfulLines(ls, i + 1)

\* max(meaningful_lines, key=len): the first of the longest.
Longest(ms) ==
    ms[CHOOSE i \in 1..Len(ms) :
            /\ \A j \in 1..Len(ms) : Len(ms[j]) <= Len(ms[i])
            /\ \A j \in 1..(i - 1) : Len(ms[j]) < Len(ms[i])]

\* Input texts: up to MaxLines lines of LineSet joined by newlines, and the
\* five-line example.
MaxLines == 3

LineSet ==
    {"7 Robot arms 42", "Soft Grippers", "12 Vol. 7", "A Survey,",
     "MIT", "Done.", "Original Article", "Neural Control of Legged Robots",
     "Research on Soft Robot Grippers", "The Soft Robot ,"}

ExampleText ==
    "Vol. 3, No. 2\nOriginal Article\nA Study of Fuzzy Reconciliation Systems\nJohn Smith, MIT\nAbstract: ..."

RECURSIVE JoinNewline(_)
JoinNewline(parts) ==
    IF Len(parts) = 0 THEN ""
    ELSE IF Len(parts) = 1 THEN parts[1]
    ELSE parts[1] \o "\n" \o JoinNewline(Tail(parts))

\* Texts that reach the limits of the scan (10 and 15 lines) and of the
\* fallback (20 lines): k short lines, then two lines of TailLines.
PadLine == "ab"
PadCounts == {9, 10, 14, 15, 20}
TailLines ==
    {"Soft Grippers", "Original Article", "Neural Control of Legged Robots",
     "Research on Soft Robot Grippers"}

PaddedTexts ==
    {JoinNewline([i \in 1..k |-> PadLine] \o <<l1, l2>>) :
        k \in PadCounts, l1 \in TailLines, l2 \in TailLines}

\* A text whose first five lines join to 300 characters or more.
LongLine == "Adaptive Impedance Control of Compliant Legged Robots on Rough Terrain"
LongText == JoinNewline([i \in 1..5 |-> LongLine])

\* Texts with a line of each author-like kind or a line of each stop word
\* after one or two title fragments.
EndLines ==
    {"MIT", "x@y.org", "Kyoto University", "Abstract", "1. Introduction",
     "Keywords: robots", "Received: 3 May", "doi: 10.1/x"}

EndTexts ==
    {JoinNewline(<<l, "Soft Grippers for", "Legged Robots">>) : l \in EndLines}
        \cup {JoinNewline(<<"Soft Grippers for", l, "Legged Robots">>) : l \in EndLines}
        \cup {JoinNewline(<<"Soft Grippers for", "Legged Robots", l>>) : l \in EndLines}
        \cup EndLines

\* Texts with blank lines, which the extractor drops.
BlankTexts ==
    {"   ", "\n", "   \nSoft Grippers\n   ", "Soft Grippers\n\n \t \nNeural Control of Legged Robots",
     "\n  MIT  \n\nA Survey,\n"}

\* Two lines of 212 characters and a short one: the joined lines reach 300
\* characters and the long lines reach 200.
WideLine == LongLine \o " " \o LongLine \o " " \o LongLine
WideText == JoinNewline(<<WideLine, WideLine, "Soft Grippers for Robots">>)

Texts ==
    {JoinNewline(ls) : ls \in UNION {[1..n -> LineSet] : n \in 0..MaxLines}}
        \cup {ExampleText, LongText, WideText} \cup PaddedTexts \cup EndTexts \cup BlankTexts

\* extract_title_from_text(text): split, strip, drop empty lines; None if none.
ExtractStart ==
    /\ pc = "start"
    /\ \E t \in Texts :
        /\ text' = t
        /\ lines' = StrippedNonEmpty(Split(t))
    /\ pc' = IF Len(lines') = 0 THEN "extracted_no_lines" ELSE "scan"
    /\ UNCHANGED <<title_start_idx, title_lines, title>>
    /\ UNCHANGED mvars
    /\ UNCHANGED fvars

\* Find the potential title start.
FindTitleStart ==
    /\ pc = "scan"
    /\ title_start_idx' = FindStart(lines, 0)
    /\ pc' = "collect"
    /\ UNCHANGED <<text, lines, title_lines, title>>
    /\ UNCHANGED mvars
    /\ UNCHANGED fvars

\* Collect the title lines from the start; return the cleaned title if accepted.
CollectTitle ==
    /\ pc = "collect"
    /\ title_lines' = IF title_start_idx < Len(lines)
                      THEN CollectTitleLines(lines, title_start_idx) ELSE <<>>
    /\ LET full_title == clean_full_title(JoinSpace(title_lines')) IN
       IF Len(title_lines') > 0 /\ AcceptsTitle(full_title)
       THEN title' = full_title /\ pc' = "extracted_primary"
       ELSE title' = title /\ pc' = "fallback"
    /\ UNCHANGED <<text, lines, title_start_idx>>
    /\ UNCHANGED mvars
    /\ UNCHANGED fvars

\* Fallback: the longest meaningful line, or None.
Fallback ==
    /\ pc = "fallback"
    /\ LET meaningful_lines == MeaningfulLines(lines, 0) IN
       title' = IF Len(meaningful_lines) > 0
                THEN clean_full_title(Longest(meaningful_lines)) ELSE None
    /\ pc' = "extracted_fallback"
    /\ UNCHANGED <<text, lines, title_start_idx, title_lines>>
    /\ UNCHANGED mvars
    /\ UNCHANGED fvars

NextExtract ==
    \/ ExtractStart
    \/ FindTitleStart
    \/ CollectTitle
    \/ Fallback

SpecExtract == Init /\ [][NextExtract]_vars

----------------------------------------------------------------------------
\* extract_pdf_title, process_all_pdfs

\* extract_title_from_text(text), as the value it returns.
extract_title_from_text(t) ==
    LET ls == StrippedNonEmpty(Split(t)) IN
    IF Len(ls) = 0 THEN None
    ELSE LET start == FindStart(ls, 0)
             tl == IF start < Len(ls) THEN CollectTitleLines(ls, start) ELSE <<>>
             full_title == clean_full_title(JoinSpace(tl))
         IN IF Len(tl) > 0 /\ AcceptsTitle(full_title) THEN full_title
            ELSE LET meaningful_lines == MeaningfulLines(ls, 0) IN
                 IF Len(meaningful_lines) > 0
                 THEN clean_full_title(Longest(meaningful_lines)) ELSE None

max_pages == 2

\* A page: extract_text() returns page_text or raises. A document: PdfReader
\* raises, or gives the pages.
Page(t) == [raises |-> FALSE, page_text |-> t]
BadPage == [raises |-> TRUE, page_text |-> ""]
Unreadable == [raises |-> TRUE, pages |-> <<>>]
Document(ps) == [raises |-> FALSE, pages |-> ps]

\* The documents a folder may hold.
DocSet ==
    {Unreadable,
     Document(<<>>),
     Document(<<Page("  \n ")>>),
     Document(<<Page("MIT")>>),
     Document(<<Page("Neural Control of Legged Robots"), BadPage>>),
     Document(<<Page("Soft Grippers for"), Page("Legged Robots\nKyoto University")>>),
     Document(<<Page("Soft Grippers"), Page("for Legged"), Page("Robots Today")>>),
     Document(<<Page(""), Page("Neural Control of Legged Robots"), BadPage>>)}

\* text after "text += page_text + '\n'" for the first n pages.
RECURSIVE ReadPages(_, _)
ReadPages(pages, n) ==
    IF n = 0 THEN "" ELSE ReadPages(pages, n - 1) \o pages[n].page_text \o "\n"

\* text.strip(), on a text with line breaks.
IsWhitespace(c) == IsSpace(c) \/ c = "\n"
StripText(s) ==
    LET keep == {i \in 1..Len(s) : ~IsWhitespace(Char(s, i))} IN
    IF keep = {} THEN "" ELSE SubSeq(s, MinIn(keep), MaxIn(keep))

\* extract_pdf_title(pdf_path): None on any exception and on an empty text.
extract_pdf_title(doc) ==
    IF doc.raises THEN None
    ELSE LET pages_to_read == Min2(max_pages, Len(doc.pages)) IN
         IF \E k \in 1..pages_to_read : doc.pages[k].raises THEN None
         ELSE LET t == StripText(ReadPages(doc.pages, pages_to_read)) IN
              IF t = "" THEN None ELSE extract_title_from_text(t)

\* "if title:"
Truthy(t) == t # None /\ t # ""

\* "if title: pdf_titles[pdf_file.name] = title"; the names of one folder are
\* distinct, so the entry is a new key at the end of the dict.
AddTitleAlways(index, name, t) ==
    Append(index, [filename |-> name, title |-> t])

AddTitle(index, name, t) ==
    IF Truthy(t) THEN Append(index, [filename |-> name, title |-> t]) ELSE index

\* The folders: up to MaxDocs documents; the glob lists them in any order.
Folders ==
    UNION {[1..n -> DocSet] : n \in 0..MaxDocs}

Listings(docs) ==
    {[k \in 1..Len(docs) |-> [name |-> FileName(order[k]), doc |-> docs[order[k]]]] :
        order \in Permutations(1..Len(docs))}

\* process_all_pdfs(pdf_folder): the glob and the empty index.
CallProcessAllPdfs ==
    /\ pc = "start"
    /\ \E docs \in Folders : \E listing \in Listings(docs) : pdf_files' = listing
    /\ file_num' = 0
    /\ pdf_titles' = <<>>
    /\ caller' = "direct"
    /\ pc' = "extract"
    /\ UNCHANGED <<excel_titles, threshold, idx, scores, best_scores, matches,
                   unmatched_articles, unmatched_pdfs, rerun, df, output_file>>
    /\ UNCHANGED xvars

\* One iteration of "for i, pdf_file in enumerate(pdf_files, 1)".
ProcessPdf ==
    /\ pc = "extract"
    /\ file_num < Len(pdf_files)
    /\ LET pdf_file == pdf_files[file_num + 1] IN
        pdf_titles' = AddTitle(pdf_titles, pdf_file.name, extract_pdf_title(pdf_file.doc))
    /\ file_num' = file_num + 1
    /\ UNCHANGED <<pc, caller, excel_titles, threshold, idx, scores, best_scores, matches,
                   unmatched_articles, unmatched_pdfs, rerun, df, output_file, pdf_files>>
    /\ UNCHANGED xvars

\* After the loop: return pdf_titles.
ProcessAllPdfsReturn ==
    /\ pc = "extract"
    /\ file_num = Len(pdf_files)
    /\ pc' = "indexed"
    /\ UNCHANGED mvars
    /\ UNCHANGED xvars
    /\ UNCHANGED fvars

NextIndex ==
    \/ CallProcessAllPdfs
    \/ ProcessPdf
    \/ ProcessAllPdfsReturn

SpecIndex == Init /\ [][NextIndex]_vars

----------------------------------------------------------------------------
\* Properties of match_titles_fuzzy

Range(f) == {f[k] : k \in DOMAIN f}
MaxOf(S) == CHOOSE x \in S : \A y \in S : y <= x
MinOf(S) == CHOOSE x \in S : \A y \in S : x <= y

\* match_titles_fuzzy has returned.
Returned == pc \in {"returned", "update", "summary", "done", "ZeroDivisionError"}

RecordIndexes == 0..(Len(excel_titles) - 1)
UnmatchedRecordIndexes == {unmatched_articles[k][1] : k \in 1..Len(unmatched_articles)}
IndexedTitles == Range(pdf_title_list)
IndexedFilenames == Range(pdf_filename_list)

\* The best score of one strategy over the whole index, and the best of the
\* three, from the scorer values of the record processed last.
StrategyBest(st) == MaxOf({scores[st][t] : t \in IndexedTitles})
OverallBest == MaxOf({StrategyBest(st) : st \in StrategySet})

\* The record processed last has a title and was scored against a non-empty index.
LastRecordScored ==
    /\ pc \in {"match", "returned"}
    /\ idx >= 1
    /\ excel_titles[idx] # NaN
    /\ Len(pdf_titles) > 0

\* C1: after match_titles_fuzzy, each document (PDF filename) is the bound
\* document of at most one match: no two records are bound to the same file.
C1_DocumentBoundAtMostOnce ==
    Returned =>
        \A i \in DOMAIN matches, j \in DOMAIN matches :
            i # j => matches[i].filename # matches[j].filename

\* C2: after match_titles_fuzzy, every record index 0..n-1 is in exactly one of
\* matches and unmatched_articles, records with a missing (NaN) title included.
C2_RecordMatchedXorUnmatched ==
    Returned =>
        \A i \in RecordIndexes :
            (i \in DOMAIN matches) # (i \in UnmatchedRecordIndexes)

\* C3: after match_titles_fuzzy, every filename of the index is either bound by
\* some match or listed in unmatched_pdfs, never both and never neither, it is
\* listed once, and unmatched_pdfs lists no filename outside the index.
C3_DocumentMatchedXorUnmatched ==
    Returned =>
        /\ \A f \in IndexedFilenames :
              (f \in MatchedFilenames(matches)) # (f \in Range(unmatched_pdfs))
        /\ Range(unmatched_pdfs) \subseteq IndexedFilenames
        /\ Cardinality(Range(unmatched_pdfs)) = Len(unmatched_pdfs)

C3_Witness ==
    /\ pc = "returned"
    /\ MatchedFilenames(matches) # {}
    /\ Len(unmatched_pdfs) > 0
    /\ Len(pdf_titles) = 2

\* C4: for a record with a title and a non-empty index, with s the maximum over
\* the three strategies of the strategy's best score over the whole index: the
\* record is matched iff s >= threshold; when matched its confidence is s and
\* its pdf_title is a title of the index scoring s under the recorded method;
\* when s < threshold the record is in unmatched_articles.
C4_MatchedIffBestReachesThreshold ==
    LastRecordScored =>
        LET r == idx - 1
            s == OverallBest
        IN /\ (r \in DOMAIN matches) <=> (s >= threshold)
           /\ r \in DOMAIN matches =>
                /\ matches[r].confidence = s
                /\ matches[r].pdf_title \in IndexedTitles
                /\ matches[r].method \in StrategySet
                /\ scores[matches[r].method][matches[r].pdf_title] = s
           /\ s < threshold => r \in UnmatchedRecordIndexes

\* A record matched with s equal to the threshold, on the second title of the
\* index, the first title scoring lower under every strategy.
C4_Witness ==
    /\ LastRecordScored
    /\ (idx - 1) \in DOMAIN matches
    /\ OverallBest = threshold
    /\ Len(pdf_titles) = 2
    /\ matches[idx - 1].pdf_title = pdf_title_list[2]
    /\ \A st \in StrategySet : scores[st][pdf_title_list[1]] < threshold

\* C5: when two or three of the per-strategy best scores are equal and maximal,
\* the recorded method is the first maximal one in the order token_sort,
\* partial, token_set, and the recorded title is a best title of that method.
C5_TieGoesToFirstStrategy ==
    (LastRecordScored /\ (idx - 1) \in DOMAIN matches) =>
        LET maximal == {k \in 1..Len(Strategies) :
                            StrategyBest(Strategies[k]) = OverallBest}
            m == matches[idx - 1]
        IN Cardinality(maximal) >= 2 =>
              /\ m.method = Strategies[MinOf(maximal)]
              /\ scores[m.method][m.pdf_title] = StrategyBest(m.method)

\* partial and token_set tie at the maximum, token_sort is lower, and the two
\* tied strategies have different best titles.
C5_Witness ==
    /\ LastRecordScored
    /\ (idx - 1) \in DOMAIN matches
    /\ StrategyBest("token_sort") < OverallBest
    /\ StrategyBest("partial") = OverallBest
    /\ StrategyBest("token_set") = OverallBest
    /\ matches[idx - 1].method = "partial"
    /\ Len(pdf_titles) = 2
    /\ scores["token_set"][matches[idx - 1].pdf_title] < OverallBest

\* C6: two calls on the same index and catalog with thresholds t1 < t2. If
\* record r has best score b with t1 <= b < t2 and every other record's best
\* score is on the same side of both thresholds, then r is matched by the first
\* call and unmatched by the second, and every other record has the same
\* outcome in both (same status, filename, title, confidence and method).
BestOf(r) == best_scores[r + 1]
HasBest(r) == Len(best_scores[r + 1]) > 0
Between(r, t1, t2) == HasBest(r) /\ t1 <= BestOf(r)[1] /\ BestOf(r)[1] < t2
UnmatchedIn(ua) == {ua[k] : k \in 1..Len(ua)}
SameOutcome(o) ==
    /\ (o \in DOMAIN matches) <=> (o \in DOMAIN rerun.matches)
    /\ o \in DOMAIN matches => matches[o] = rerun.matches[o]
    /\ (<<o, excel_titles[o + 1]>> \in UnmatchedIn(unmatched_articles))
         <=> (<<o, excel_titles[o + 1]>> \in UnmatchedIn(rerun.unmatched_articles))

C6_RaisingThresholdMovesOnlyThatRecord ==
    (pc = "returned" /\ rerun.active) =>
        \A r \in RecordIndexes :
            (/\ Between(r, threshold, rerun.threshold)
             /\ \A o \in RecordIndexes \ {r} :
                    ~Between(o, threshold, rerun.threshold))
            => /\ r \in DOMAIN matches
               /\ r \notin DOMAIN rerun.matches
               /\ <<r, excel_titles[r + 1]>> \in UnmatchedIn(rerun.unmatched_articles)
               /\ \A o \in RecordIndexes \ {r} : SameOutcome(o)

\* Record 0 keeps its match under both thresholds, record 1 loses its match.
C6_Witness ==
    /\ pc = "returned"
    /\ rerun.active
    /\ Len(excel_titles) = 2
    /\ HasBest(0) /\ BestOf(0)[1] >= rerun.threshold
    /\ Between(1, threshold, rerun.threshold)
    /\ 0 \in DOMAIN rerun.matches
    /\ 1 \in DOMAIN matches
    /\ 1 \notin DOMAIN rerun.matches

----------------------------------------------------------------------------
\* Properties of extract_title_from_text

Extracted == pc \in {"extracted_no_lines", "extracted_primary", "extracted_fallback"}

\* C7: on the five-line example the extractor returns exactly
\* "Study of Fuzzy Reconciliation Systems", without the author line.
C7_ExampleReturnsTitleOnly ==
    (Extracted /\ text = ExampleText) =>
        title = "Study of Fuzzy Reconciliation Systems"

\* No line of the text is longer than 15 characters or contains a section label.
ShortUnlabelled ==
    LET raw == Split(text) IN
    \A i \in 1..Len(raw) :
        /\ Len(raw[i]) <= 15
        /\ ~ContainsAny(Lower(raw[i]), SectionWords)

\* C8, as stated: a text with no line longer than 15 characters and no section
\* label yields None.
C8_ShortLinesReturnNone ==
    (Extracted /\ ShortUnlabelled) => title = None

\* C8, amended: for such a text the fallback yields nothing, and the result is
\* None exactly when the title assembled from the collected fragments is empty
\* or at most 10 characters long; a longer assembled title is returned.
C8_ShortLinesReturnNoneUnlessJoinedOver10 ==
    (Extracted /\ ShortUnlabelled) =>
        /\ pc = "extracted_fallback" => title = None
        /\ (title = None) <=>
              \/ Len(title_lines) = 0
              \/ Len(clean_full_title(JoinSpace(title_lines))) <= 10
        /\ title # None => Len(title) > 10

\* Two or more short lines, a fragment collected, and None returned after the
\* fallback ran.
C8_Witness ==
    /\ pc = "extracted_fallback"
    /\ ShortUnlabelled
    /\ Len(lines) >= 2
    /\ Len(title_lines) >= 1
    /\ title = None

----------------------------------------------------------------------------
\* Properties of main and update_excel_file

\* C9: when main finds the index or the catalog empty, it writes no output
\* file, does not reach update_excel_file and raises no error.
C9_EmptyInputExitsWithoutOutputOrError ==
    (caller = "main" /\ (Len(pdf_titles) = 0 \/ Len(excel_titles) = 0)) =>
        /\ output_file = <<>>
        /\ pc \notin {"summary", "ZeroDivisionError"}

\* C10: the output catalog has the rows of the input catalog in the same
\* order, every input column unchanged, and the two added columns: File Name
\* and Match Confidence hold the filename and the confidence followed by '%'
\* for a row in matches, and the empty string for any other row.
C10_OutputIsCatalogPlusTwoColumns ==
    pc \in {"summary", "done", "ZeroDivisionError"} =>
        LET n == Len(excel_titles)
            catalog == ReadExcel(excel_titles)
        IN /\ output_file = <<df>>
           /\ DOMAIN df = InputColumns \cup {"File Name", "Match Confidence"}
           /\ \A c \in InputColumns : df[c] = catalog[c]
           /\ \A c \in DOMAIN df : Len(df[c]) = n
           /\ \A i \in 1..n :
                IF (i - 1) \in DOMAIN matches
                THEN /\ df["File Name"][i] = matches[i - 1].filename
                     /\ df["Match Confidence"][i]
                            = ToString(matches[i - 1].confidence) \o "%"
                ELSE /\ df["File Name"][i] = ""
                     /\ df["Match Confidence"][i] = ""

\* A written catalog with a matched row and an unmatched row.
C10_Witness ==
    /\ pc = "done"
    /\ Len(excel_titles) = 2
    /\ Cardinality(DOMAIN matches) = 1
    /\ \E i \in 1..2 : df["File Name"][i] # "" /\ df["Match Confidence"][i] = "60%"
    /\ \E i \in 1..2 : df["File Name"][i] = ""

----------------------------------------------------------------------------
\* Properties of the collection loop and of the title start

\* CollectTitle has run over a non-empty window.
Collected ==
    /\ pc \in {"fallback", "extracted_primary", "extracted_fallback"}
    /\ title_start_idx < Len(lines)

\* The lines of the window, 0-based.
WindowIndexes == title_start_idx..(Min2(title_start_idx + 5, Len(lines)) - 1)

\* The cleaned lines, in the order of the lines.
RECURSIVE CleanedLines(_)
CleanedLines(ls) ==
    IF Len(ls) = 0 THEN <<>> ELSE <<clean_title_line(Head(ls))>> \o CleanedLines(Tail(ls))

\* What a cleaned line is to the collection loop: nothing ("skipped"), a line
\* with a stop word ("stop"), an author-like line without one ("author"), a
\* fragment that ends the title ("closing") or one that does not ("open").
CollectKind(cleaned_line) ==
    IF cleaned_line = "" THEN "skipped"
    ELSE IF ContainsAny(Lower(cleaned_line), StopWords) THEN "stop"
    ELSE IF LooksLikeAuthor(cleaned_line) THEN "author"
    ELSE IF EndsSentence(cleaned_line) THEN "closing"
    ELSE "open"

RECURSIVE CollectKinds(_)
CollectKinds(cl) ==
    IF Len(cl) = 0 THEN <<>> ELSE <<CollectKind(Head(cl))>> \o CollectKinds(Tail(cl))

\* The loop reaches line i: it neither stopped nor closed the title before.
ReachesLine(kinds, i) ==
    /\ i \in WindowIndexes
    /\ \A j \in title_start_idx..(i - 1) : kinds[j + 1] \in {"skipped", "open"}

\* The fragments of the window before line i.
IsFragment(line) == line # ""
FragmentsBefore(cl, i) == SelectSeq(SubSeq(cl, title_start_idx + 1, i), IsFragment)

\* C11, as stated: an author-like line reached by the loop is appended and is
\* the last fragment; a stop-word line reached by the loop is not appended.
C11_AuthorLineIncludedStopLineExcluded ==
    Collected =>
        LET cl == CleanedLines(lines)
            kinds == CollectKinds(cl)
        IN \A i \in WindowIndexes :
            /\ (ReachesLine(kinds, i) /\ kinds[i + 1] = "author") =>
                    title_lines = Append(FragmentsBefore(cl, i), cl[i + 1])
            /\ (ReachesLine(kinds, i) /\ kinds[i + 1] = "stop") =>
                    title_lines = FragmentsBefore(cl, i)

\* C11, amended: neither an author-like line nor a stop-word line reached by
\* the loop is appended: collection stops with the fragments before it.
C11_AuthorLineAndStopLineExcluded ==
    Collected =>
        LET cl == CleanedLines(lines)
            kinds == CollectKinds(cl)
        IN \A i \in WindowIndexes :
            (ReachesLine(kinds, i) /\ kinds[i + 1] \in {"author", "stop"}) =>
                title_lines = FragmentsBefore(cl, i)

\* Two fragments, then a line that is author-like by the word 'university'.
C11_Witness ==
    /\ Collected
    /\ LET cl == CleanedLines(lines)
           kinds == CollectKinds(cl)
       IN \E i \in WindowIndexes :
            /\ ReachesLine(kinds, i)
            /\ kinds[i + 1] = "author"
            /\ Contains(Lower(cl[i + 1]), "university")
            /\ Len(FragmentsBefore(cl, i)) = 2
            /\ title_lines = FragmentsBefore(cl, i)

----------------------------------------------------------------------------
\* Title start index

\* FindTitleStart has run.
Scanned == pc \in {"collect", "fallback", "extracted_primary", "extracted_fallback"}

\* What a line is to the scan: boilerplate, a line with a section label, a
\* line of more than 20 characters without one ("substantial"), or none of these.
ScanKind(line) ==
    IF ContainsAny(Lower(line), HeaderWords) THEN "boilerplate"
    ELSE IF ContainsAny(Lower(line), SectionWords) THEN "label"
    ELSE IF Len(line) > 20 THEN "substantial"
    ELSE "plain"

RECURSIVE ScanKinds(_)
ScanKinds(ls) ==
    IF Len(ls) = 0 THEN <<>> ELSE <<ScanKind(Head(ls))>> \o ScanKinds(Tail(ls))

\* The 0-based indexes, among the first 15 lines, of the lines that trigger:
\* a label, or a substantial line among the first 10.
TriggerIndexes(kinds) ==
    {i \in 0..(Min2(Len(kinds), 15) - 1) :
        kinds[i + 1] = "label" \/ (kinds[i + 1] = "substantial" /\ i < 10)}

\* C12: the title start is set by the first line of the first 15 that is not
\* boilerplate and either holds a section label (start is the next index) or
\* is longer than 20 characters within the first 10 lines (start is its
\* index); a label takes precedence over the length; with no such line the
\* start is 0.
C12_StartSetByFirstTrigger ==
    Scanned =>
        LET kinds == ScanKinds(lines)
            triggers == TriggerIndexes(kinds)
        IN IF triggers = {} THEN title_start_idx = 0
           ELSE LET i == MinOf(triggers) IN
                title_start_idx = IF kinds[i + 1] = "label" THEN i + 1 ELSE i

\* The first line triggers, is longer than 20 characters and holds a section
\* label: the title starts at the line after it.
C12_Witness ==
    /\ Scanned
    /\ Len(lines) > 1
    /\ Len(lines[1]) > 20
    /\ ScanKind(lines[1]) = "label"
    /\ title_start_idx = 1

----------------------------------------------------------------------------
\* Length of the returned title

ReturnedTitle == Extracted /\ title # None

\* C13, as stated: every returned title, from the primary path or from the
\* fallback, is longer than 10 and shorter than 300 characters.
C13_ReturnedTitleOver10Under300 ==
    ReturnedTitle => Len(title) > 10 /\ Len(title) < 300

\* C13, amended: a title returned by the primary path is longer than 10 and
\* shorter than 300 characters; a title returned by the fallback is the final
\* cleaning of a cleaned line of 16 to 199 characters, and it has at least 10
\* and fewer than 200 characters.
C13_PrimaryOver10FallbackAtLeast10 ==
    ReturnedTitle =>
        /\ pc = "extracted_primary" => Len(title) > 10 /\ Len(title) < 300
        /\ pc = "extracted_fallback" =>
                /\ Len(title) >= 10 /\ Len(title) < 200
                /\ LET cl == CleanedLines(lines) IN
                   \E k \in 1..Min2(Len(cl), 20) :
                        /\ Len(cl[k]) > 15 /\ Len(cl[k]) < 200
                        /\ title = clean_full_title(cl[k])

\* The fallback returns a title of exactly 10 characters.
C13_Witness ==
    /\ ReturnedTitle
    /\ pc = "extracted_fallback"
    /\ Len(title) = 10

----------------------------------------------------------------------------
\* The title index built by process_all_pdfs

Indexed == pc = "indexed"

\* The index as a mapping: the set of its (filename, title) entries.
IndexEntries == {<<pdf_titles[k].filename, pdf_titles[k].title>> : k \in 1..Len(pdf_titles)}

\* The pages read of a document, and what qualifies it for the index.
PagesRead(doc) == 1..Min2(max_pages, Len(doc.pages))
NoExtractionError(doc) == ~doc.raises /\ \A k \in PagesRead(doc) : ~doc.pages[k].raises
ExtractedText(doc) == StripText(ReadPages(doc.pages, Min2(max_pages, Len(doc.pages))))
TitleOf(doc) == extract_title_from_text(ExtractedText(doc))
Qualifies(doc) ==
    /\ NoExtractionError(doc)
    /\ ExtractedText(doc) # ""
    /\ TitleOf(doc) # None /\ TitleOf(doc) # ""

\* The files of the folder, whatever the order of the listing.
FolderFiles == Range(pdf_files)

\* C14: when process_all_pdfs returns, every file has been visited and the
\* index holds one entry, filename to title, for exactly the files whose
\* extraction raised no error, gave a non-empty text and gave a non-empty
\* title; the entries are a function of the set of files, not of the order
\* in which the files were visited.
C14_IndexIsExactlyQualifyingDocuments ==
    Indexed =>
        /\ file_num = Len(pdf_files)
        /\ IndexEntries = {<<f.name, TitleOf(f.doc)>> : f \in {g \in FolderFiles : Qualifies(g.doc)}}
        /\ Len(pdf_titles) = Cardinality({g \in FolderFiles : Qualifies(g.doc)})

\* The file visited first raises an error and is left out; the file visited
\* second, listed out of name order, is indexed from its first two pages.
C14_Witness ==
    /\ Indexed
    /\ Len(pdf_files) = 2
    /\ pdf_files[1].name = FileName(2)
    /\ ~NoExtractionError(pdf_files[1].doc)
    /\ Qualifies(pdf_files[2].doc)
    /\ Len(pdf_files[2].doc.pages) > max_pages
    /\ IndexEntries = {<<FileName(1), TitleOf(pdf_files[2].doc)>>}

----------------------------------------------------------------------------
\* Documents with the same extracted title

\* The position in the index of the first document with title t.
FirstWithTitle(t) == MinOf({k \in 1..Len(pdf_titles) : pdf_titles[k].title = t})

\* Document k repeats the title of a document before it in the index.
RepeatsEarlierTitle(k) == \E j \in 1..(k - 1) : pdf_titles[j].title = pdf_titles[k].title

\* C15: when match_titles_fuzzy returns, every match is bound to the first
\* document of the index that carries the matched title, and every document
\* that repeats the title of an earlier document is bound to no record and
\* is in the list of unmatched documents.
C15_DuplicateTitleBindsFirstDocument ==
    Returned =>
        /\ \A r \in DOMAIN matches :
                matches[r].filename = pdf_titles[FirstWithTitle(matches[r].pdf_title)].filename
        /\ \A k \in 1..Len(pdf_titles) :
                RepeatsEarlierTitle(k) =>
                    /\ pdf_titles[k].filename \notin MatchedFilenames(matches)
                    /\ pdf_titles[k].filename \in Range(unmatched_pdfs)

\* Two documents with one title; two records are matched on that title and
\* bound to the first document; the second document is unmatched.
C15_Witness ==
    /\ Returned
    /\ Len(pdf_titles) = 2
    /\ RepeatsEarlierTitle(2)
    /\ Cardinality(DOMAIN matches) = 2
    /\ \A r \in DOMAIN matches : matches[r].filename = pdf_titles[1].filename
    /\ unmatched_pdfs = <<pdf_titles[2].filename>>

====
